---- MODULE Spec2Model ----
(***************************************************************************)
(* Model of the FaceBoxes detection wrapper (ModelFaceBoxes) and of the    *)
(* set-up of the super-resolution wrapper (SuperResolutionModel).          *)
(*                                                                         *)
(* Numbers.  The code computes in float.  Every coordinate of the model is *)
(* an integer number of quarter pixels: the anchor sub-offsets are         *)
(* multiples of 0.25 of a cell and the half sizes are multiples of 0.5     *)
(* pixel, so all anchor coordinates are exact in that unit (and exactly    *)
(* representable in float).  Scores and thresholds are integers in         *)
(* hundredths.  Box deltas are integers (the float value itself); the two  *)
(* variances are tenths.  A float quotient that does not fall on the       *)
(* quarter-pixel grid is rounded down to it (FloatDiv).                    *)
(***************************************************************************)
EXTENDS Integers, Sequences, FiniteSets, TLC

VARIABLES
    steps,                \* ModelFaceBoxes::steps (class constant of the header)
    minSizes,             \* ModelFaceBoxes::minSizes
    confidence_threshold, \* DetectionModel::confidence_threshold, hundredths
    iou_threshold,        \* DetectionModelExt::iou_threshold, hundredths
    labels,               \* DetectionModel::labels
    fbModel,              \* the ov::Model handed to set-up (its declared tensors), or NoModel
    fbState,              \* "constructed", "ready" (set-up returned), "failed" (set-up threw)
    fbError,              \* the message of the std::logic_error thrown by set-up, or "none"
    inputNames,           \* number of names pushed to ImageModel::inputNames
    outputNames,          \* number of names pushed to outputNames
    netInputWidth,        \* pixels
    netInputHeight,       \* pixels
    maxProposalsCount,
    anchors,              \* ModelFaceBoxes::anchors, sequence of Anchor
    call,                 \* the last postprocess call: its inputs, locals and result
    wrapper,              \* which wrapper this run constructs: "faceboxes" or "super_resolution"
    srState,              \* the super-resolution wrapper: "constructed", "ready", "failed"
    srError,
    srModel,              \* the ov::Model handed to that wrapper's set-up, or NoModel
    srNames               \* <<number of inputNames, number of outputNames>> of that wrapper

fbVars == <<steps, minSizes, confidence_threshold, iou_threshold, labels, fbModel, fbState, fbError,
            inputNames, outputNames, netInputWidth, netInputHeight,
            maxProposalsCount, anchors, call>>
srVars == <<wrapper, srState, srError, srModel, srNames>>
vars == <<fbVars, srVars>>

(***************************************************************************)
(* Anchor: left, top, right, bottom, in quarter pixels.                    *)
(***************************************************************************)
Anchor(l, t, r, b) == [left |-> l, top |-> t, right |-> r, bottom |-> b]

\* Anchor::getWidth etc. (utils/nms.hpp): width = right - left,
\* centre = left + width / 2.
getWidth(a) == a.right - a.left
getHeight(a) == a.bottom - a.top
getXCenter(a) == a.left + getWidth(a) \div 2
getYCenter(a) == a.top + getHeight(a) \div 2

(***************************************************************************)
(* Anchor generation.  vx and vy are cell coordinates in quarter cells     *)
(* (fx + 0.25f is 4 * fx + 1); multiplied by the step in pixels they are   *)
(* quarter pixels.  0.5f * skx is 2 * minSize quarter pixels.              *)
(***************************************************************************)
RECURSIVE AnchorsOfRow(_, _, _, _, _)
\* the inner loop of calculateAnchors: for (auto cx : dense_cx) push_back
AnchorsOfRow(dense_cx, a, cy, skx, sky) ==
    IF a > Len(dense_cx) THEN <<>>
    ELSE <<Anchor(dense_cx[a] - skx \div 2, cy - sky \div 2,
                  dense_cx[a] + skx \div 2, cy + sky \div 2)>>
         \o AnchorsOfRow(dense_cx, a + 1, cy, skx, sky)

RECURSIVE AnchorsOfRows(_, _, _, _, _)
\* the outer loop of calculateAnchors: for (auto cy : dense_cy)
AnchorsOfRows(dense_cx, dense_cy, b, skx, sky) ==
    IF b > Len(dense_cy) THEN <<>>
    ELSE AnchorsOfRow(dense_cx, 1, dense_cy[b], skx, sky)
         \o AnchorsOfRows(dense_cx, dense_cy, b + 1, skx, sky)

\* calculateAnchors with the two loops exchanged (cx outer, cy inner)
calculateAnchorsXOuter(vx, vy, minSize, step) ==
    LET skx == 4 * minSize
        sky == 4 * minSize
        dense_cx == [a \in 1..Len(vx) |-> vx[a] * step]
        dense_cy == [b \in 1..Len(vy) |-> vy[b] * step]
        RECURSIVE Inner(_, _)
        Inner(a, b) == IF b > Len(dense_cy) THEN <<>>
                       ELSE <<Anchor(dense_cx[a] - skx \div 2, dense_cy[b] - sky \div 2,
                                     dense_cx[a] + skx \div 2, dense_cy[b] + sky \div 2)>>
                            \o Inner(a, b + 1)
        RECURSIVE Outer(_)
        Outer(a) == IF a > Len(dense_cx) THEN <<>> ELSE Inner(a, 1) \o Outer(a + 1)
    IN  Outer(1)

\* calculateAnchors: the anchors it appends
calculateAnchors(vx, vy, minSize, step) ==
    LET skx == 4 * minSize
        sky == 4 * minSize
        dense_cx == [a \in 1..Len(vx) |-> vx[a] * step]
        dense_cy == [b \in 1..Len(vy) |-> vy[b] * step]
    IN  AnchorsOfRows(dense_cx, dense_cy, 1, skx, sky)

\* the sub-offsets calculateAnchorsZeroLevel pushes to vx (or vy) for min size s
ZeroLevelOffsets(f, s) ==
    IF s = 32 THEN <<4 * f, 4 * f + 1, 4 * f + 2, 4 * f + 3>>
    ELSE IF s = 64 THEN <<4 * f, 4 * f + 2>>
    ELSE <<4 * f + 2>>

RECURSIVE ZeroLevelFrom(_, _, _, _, _)
\* calculateAnchorsZeroLevel: for (auto s : minSizes)
ZeroLevelFrom(n, fx, fy, sizes, step) ==
    IF n > Len(sizes) THEN <<>>
    ELSE calculateAnchors(ZeroLevelOffsets(fx, sizes[n]), ZeroLevelOffsets(fy, sizes[n]),
                          sizes[n], step)
         \o ZeroLevelFrom(n + 1, fx, fy, sizes, step)

calculateAnchorsZeroLevel(fx, fy, sizes, step) == ZeroLevelFrom(1, fx, fy, sizes, step)

\* the body of the innermost loop of priorBoxes, for level k (0-based), row i, column j
CellAnchors(k, i, j, ms, st) ==
    IF k = 0 THEN calculateAnchorsZeroLevel(j, i, ms[k + 1], st[k + 1])
    ELSE calculateAnchors(<<4 * j + 2>>, <<4 * i + 2>>, ms[k + 1][1], st[k + 1])

RECURSIVE ColumnsFrom(_, _, _, _, _, _)
\* for (size_t j = 0; j < featureMaps[k].second; ++j)
ColumnsFrom(k, i, j, featureMaps, ms, st) ==
    IF j >= featureMaps[k + 1][2] THEN <<>>
    ELSE CellAnchors(k, i, j, ms, st) \o ColumnsFrom(k, i, j + 1, featureMaps, ms, st)

RECURSIVE RowsFrom(_, _, _, _, _)
\* for (size_t i = 0; i < featureMaps[k].first; ++i)
RowsFrom(k, i, featureMaps, ms, st) ==
    IF i >= featureMaps[k + 1][1] THEN <<>>
    ELSE ColumnsFrom(k, i, 0, featureMaps, ms, st) \o RowsFrom(k, i + 1, featureMaps, ms, st)

RECURSIVE LevelsFrom(_, _, _, _)
\* for (size_t k = 0; k < featureMaps.size(); ++k)
LevelsFrom(k, featureMaps, ms, st) ==
    IF k >= Len(featureMaps) THEN <<>>
    ELSE RowsFrom(k, 0, featureMaps, ms, st) \o LevelsFrom(k + 1, featureMaps, ms, st)

\* ModelFaceBoxes::priorBoxes: the anchors list after the call (it starts empty)
priorBoxes(featureMaps, ms, st) == LevelsFrom(0, featureMaps, ms, st)

\* the featureMaps prepareInputsOutputs builds: {netInputHeight / s, netInputWidth / s}
FeatureMaps(st, w, h) == [k \in 1..Len(st) |-> <<h \div st[k], w \div st[k]>>]

(***************************************************************************)
(* Bounds of the model.                                                    *)
(***************************************************************************)
MaxTensors == 3        \* a model handed to set-up declares 0..MaxTensors inputs and outputs
MaxExtraProposals == 1 \* the declared proposal count is off by at most this much
MaxHot == 3            \* the first MaxHot candidates carry free scores

NoModel == [none |-> TRUE]

\* The configurations an instance is constructed with: the class constants steps
\* and minSizes, the thresholds, and the configured labels (<<>>: none configured).
InstanceConfigs ==
    { [steps |-> <<32, 64, 128>>, minSizes |-> <<<<32, 64>>, <<256>>, <<512>>>>,
       confidence_threshold |-> 50, iou_threshold |-> 50, labels |-> <<>>],
      [steps |-> <<32, 64, 128>>, minSizes |-> <<<<32, 64, 128>>, <<256>>, <<512>>>>,
       confidence_threshold |-> 50, iou_threshold |-> 30, labels |-> <<"head", "body">>] }

\* network input sizes <<width, height>> in pixels
Geometries == { <<64, 32>>, <<128, 128>> }

\* the number of anchors per cell of level k (0-based) the configuration asks for
PerCell(ms, k) ==
    IF k > 0 THEN 1
    ELSE LET n(s) == IF s = 32 THEN 16 ELSE IF s = 64 THEN 4 ELSE 1
             RECURSIVE Sum(_)
             Sum(a) == IF a > Len(ms[1]) THEN 0 ELSE n(ms[1][a]) + Sum(a + 1)
         IN  Sum(1)

\* the number of candidates a network of that input size is built to emit
RECURSIVE ProposalsFrom(_, _, _, _, _)
ProposalsFrom(k, st, ms, w, h) ==
    IF k >= Len(st) THEN 0
    ELSE (h \div st[k + 1]) * (w \div st[k + 1]) * PerCell(ms, k)
         + ProposalsFrom(k + 1, st, ms, w, h)

\* The models set-up may be handed: the tensors they declare.
FBModels(st, ms) ==
    { [nInputs |-> ni, channels |-> ch, width |-> g[1], height |-> g[2],
       nOutputs |-> no, maxProposals |-> ProposalsFrom(0, st, ms, g[1], g[2]) + d] :
        ni \in 0..MaxTensors, ch \in {1, 3}, g \in Geometries,
        no \in 0..MaxTensors, d \in (0 - MaxExtraProposals)..MaxExtraProposals }

(***************************************************************************)
(* ModelFaceBoxes: construction and set-up.                                *)
(***************************************************************************)
\* initDefaultParameters: labels = {"Face"} when the configuration has none
initDefaultParameters(configured) == IF configured = <<>> THEN <<"Face">> ELSE configured

NoCall == [status |-> "none"]

FBInit ==
    /\ \E c \in InstanceConfigs :
          /\ steps = c.steps
          /\ minSizes = c.minSizes
          /\ confidence_threshold = c.confidence_threshold
          /\ iou_threshold = c.iou_threshold
          /\ labels = initDefaultParameters(c.labels)
    /\ fbModel = NoModel
    /\ fbState = "constructed"
    /\ fbError = "none"
    /\ inputNames = 0
    /\ outputNames = 0
    /\ netInputWidth = 0
    /\ netInputHeight = 0
    /\ maxProposalsCount = 0
    /\ anchors = <<>>
    /\ call = NoCall

\* prepareInputsOutputs calculating the anchors before it checks the outputs
prepareInputsOutputsAnchorsFirst(m, st, ms) ==
    LET before == [state |-> "failed", error |-> "none", inputNames |-> 0,
                   outputNames |-> 0, netInputWidth |-> 0, netInputHeight |-> 0,
                   maxProposalsCount |-> 0, anchors |-> <<>>]
        read == [before EXCEPT !.inputNames = 1, !.netInputWidth = m.width,
                               !.netInputHeight = m.height,
                               !.anchors = priorBoxes(FeatureMaps(st, m.width, m.height), ms, st)]
    IN  IF m.nInputs # 1
        THEN [before EXCEPT !.error = "FaceBoxes model wrapper expects models that have only 1 input"]
        ELSE IF m.channels # 3
        THEN [before EXCEPT !.error = "Expected 3-channel input"]
        ELSE IF m.nOutputs # 2
        THEN [read EXCEPT !.error = "FaceBoxes model wrapper expects models that have 2 outputs"]
        ELSE [read EXCEPT !.state = "ready",
                          !.outputNames = m.nOutputs,
                          !.maxProposalsCount = m.maxProposals]

\* ModelFaceBoxes::prepareInputsOutputs(model), as the state it leaves:
\* what it assigned before it threw or returned.
prepareInputsOutputs(m, st, ms) ==
    LET before == [state |-> "failed", error |-> "none", inputNames |-> 0,
                   outputNames |-> 0, netInputWidth |-> 0, netInputHeight |-> 0,
                   maxProposalsCount |-> 0, anchors |-> <<>>]
        read == [before EXCEPT !.inputNames = 1, !.netInputWidth = m.width,
                               !.netInputHeight = m.height]
    IN  IF m.nInputs # 1
        THEN [before EXCEPT !.error = "FaceBoxes model wrapper expects models that have only 1 input"]
        ELSE IF m.channels # 3
        THEN [before EXCEPT !.error = "Expected 3-channel input"]
        ELSE IF m.nOutputs # 2
        THEN [read EXCEPT !.error = "FaceBoxes model wrapper expects models that have 2 outputs"]
        ELSE [read EXCEPT !.state = "ready",
                          !.outputNames = m.nOutputs,
                          !.maxProposalsCount = m.maxProposals,
                          !.anchors = priorBoxes(FeatureMaps(st, m.width, m.height), ms, st)]

\* set-up of the instance with model m
FBSetupWith(m) ==
    /\ wrapper = "faceboxes"
    /\ fbState = "constructed"
    /\    LET r == prepareInputsOutputs(m, steps, minSizes)
          IN  /\ fbModel' = m
              /\ fbState' = r.state
              /\ fbError' = r.error
              /\ inputNames' = inputNames + r.inputNames
              /\ outputNames' = outputNames + r.outputNames
              /\ netInputWidth' = IF r.inputNames > 0 THEN r.netInputWidth ELSE netInputWidth
              /\ netInputHeight' = IF r.inputNames > 0 THEN r.netInputHeight ELSE netInputHeight
              /\ maxProposalsCount' = IF r.state = "ready" THEN r.maxProposalsCount
                                                        ELSE maxProposalsCount
              /\ anchors' = anchors \o r.anchors
    /\ UNCHANGED <<steps, minSizes, confidence_threshold, iou_threshold, labels, call>>
    /\ UNCHANGED srVars

FBSetup ==
    /\ wrapper = "faceboxes" /\ fbState = "constructed"
    /\ \E m \in FBModels(steps, minSizes) : FBSetupWith(m)

(***************************************************************************)
(* Float helpers.                                                          *)
(***************************************************************************)
\* a / b for b > 0, rounded down to the grid
FloatDiv(a, b) == a \div b

\* exp(t / 10) in quarters, rounded to the nearest quarter, for the arguments
\* dw * variance[1] the model's deltas produce
ExpQuarters(t) ==
    CASE t = -10 -> 1  [] t = -8 -> 2  [] t = -6 -> 2  [] t = -4 -> 3  [] t = -2 -> 3
      [] t = 0 -> 4
      [] t = 2 -> 5    [] t = 4 -> 6   [] t = 6 -> 7   [] t = 8 -> 9   [] t = 10 -> 11

\* clamp (utils/common.hpp)
clamp(v, lo, hi) == IF v < lo THEN lo ELSE IF v > hi THEN hi ELSE v

\* A tensor: its shape and its flat buffer.  The buffer is held as the values
\* of its hot entries (a function on their 0-based offsets) over a repeating
\* pattern, base, that every other entry follows.  At reads the buffer at a
\* 0-based offset.
Tensor(shape, base, hot) == [shape |-> shape, base |-> base, hot |-> hot]
At(t, offset) ==
    IF offset \in DOMAIN t.hot THEN t.hot[offset] ELSE t.base[(offset % Len(t.base)) + 1]

(***************************************************************************)
(* filterScores                                                            *)
(***************************************************************************)
\* the offsets the loop visits: for (size_t i = 1; i < shape[1] * shape[2]; i = i + 2)
VisitedOffsets(scoresTensor) ==
    LET total == scoresTensor.shape[2] * scoresTensor.shape[3]
    IN  [k \in 1..(total \div 2) |-> 2 * k - 1]

\* the test with >= in place of >
ScorePassesAtThreshold(score, threshold) == score >= threshold

\* the test that keeps a candidate: scoresPtr[i] > confidence_threshold
ScorePasses(score, threshold) == score > threshold

filterScores(scoresTensor, threshold) ==
    LET kept == SelectSeq(VisitedOffsets(scoresTensor),
                          LAMBDA i : ScorePasses(At(scoresTensor, i), threshold))
    IN  [first  |-> [k \in 1..Len(kept) |-> kept[k] \div 2],
         second |-> [k \in 1..Len(kept) |-> At(scoresTensor, kept[k])]]

(***************************************************************************)
(* filterBoxes                                                             *)
(***************************************************************************)
\* anchors[i]: reading past the end of the vector is undefined behaviour, and
\* yields whatever the caller of the model supplies as `stray`
AnchorAt(anchorList, i, stray) ==
    IF i < Len(anchorList) THEN anchorList[i + 1] ELSE stray

\* the box the loop body pushes for candidate i; variance in tenths
DecodeBox(boxesTensor, a, i, variance) ==
    LET objStart == boxesTensor.shape[3] * i
        dx == At(boxesTensor, objStart)
        dy == At(boxesTensor, objStart + 1)
        dw == At(boxesTensor, objStart + 2)
        dh == At(boxesTensor, objStart + 3)
        predCtrX == FloatDiv(dx * variance[1] * getWidth(a), 10) + getXCenter(a)
        predCtrY == FloatDiv(dy * variance[1] * getHeight(a), 10) + getYCenter(a)
        predW == FloatDiv(ExpQuarters(dw * variance[2]) * getWidth(a), 4)
        predH == FloatDiv(ExpQuarters(dh * variance[2]) * getHeight(a), 4)
    IN  Anchor(predCtrX - FloatDiv(predW, 2), predCtrY - FloatDiv(predH, 2),
               predCtrX + FloatDiv(predW, 2), predCtrY + FloatDiv(predH, 2))

\* filterBoxes reading the deltas at the position in validIndices, not at the candidate
filterBoxesByPosition(boxesTensor, anchorList, validIndices, variance, stray) ==
    [j \in 1..Len(validIndices) |->
        DecodeBox(boxesTensor, AnchorAt(anchorList, validIndices[j], stray), j - 1, variance)]

filterBoxes(boxesTensor, anchorList, validIndices, variance, stray) ==
    [j \in 1..Len(validIndices) |->
        DecodeBox(boxesTensor, AnchorAt(anchorList, validIndices[j], stray),
                  validIndices[j], variance)]

(***************************************************************************)
(* nms (utils/nms.hpp): greedy suppression over the boxes in descending    *)
(* score order, ties in score by ascending index.  Indices are 0-based.    *)
(***************************************************************************)
Max(a, b) == IF a > b THEN a ELSE b
Min(a, b) == IF a < b THEN a ELSE b

Area(b) == (b.right - b.left) * (b.bottom - b.top)

Intersection(a, b) ==
    LET w == Min(a.right, b.right) - Max(a.left, b.left)
        h == Min(a.bottom, b.bottom) - Max(a.top, b.top)
    IN  IF w > 0 /\ h > 0 THEN w * h ELSE 0

\* IoU(a, b) > thresh, thresh in hundredths
Overlaps(a, b, thresh) ==
    LET inter == Intersection(a, b)
        union == Area(a) + Area(b) - inter
    IN  union > 0 /\ inter * 100 > thresh * union

\* o1 comes before o2: higher score first, equal scores by lower index
Before(scores, o1, o2) ==
    \/ scores[o1 + 1] > scores[o2 + 1]
    \/ scores[o1 + 1] = scores[o2 + 1] /\ o1 < o2

\* the indices 0..n-1 sorted by Before
SortedOrder(scores) ==
    LET n == Len(scores)
        rank(o) == Cardinality({q \in 0..(n - 1) : Before(scores, q, o)})
    IN  [k \in 1..n |-> CHOOSE o \in 0..(n - 1) : rank(o) = k - 1]

RECURSIVE Greedy(_, _, _, _, _)
\* the greedy pass from position k of the order, keep being the indices kept so far
Greedy(boxes, order, k, keep, thresh) ==
    IF k > Len(order) THEN keep
    ELSE LET idx == order[k]
             suppressed == \E q \in 1..Len(keep) :
                               Overlaps(boxes[keep[q] + 1], boxes[idx + 1], thresh)
         IN  Greedy(boxes, order, k + 1,
                    IF suppressed THEN keep ELSE Append(keep, idx), thresh)

RECURSIVE GreedyPrevious(_, _, _, _, _)
\* a pass that compares a box with the box just before it in the order only
GreedyPrevious(boxes, order, k, keep, thresh) ==
    IF k > Len(order) THEN keep
    ELSE LET idx == order[k]
             suppressed == k > 1 /\ Overlaps(boxes[order[k - 1] + 1], boxes[idx + 1], thresh)
         IN  GreedyPrevious(boxes, order, k + 1,
                            IF suppressed THEN keep ELSE Append(keep, idx), thresh)

nmsAgainstPrevious(boxes, scores, thresh) ==
    GreedyPrevious(boxes, SortedOrder(scores), 1, <<>>, thresh)

nms(boxes, scores, thresh) == Greedy(boxes, SortedOrder(scores), 1, <<>>, thresh)

(***************************************************************************)
(* ModelFaceBoxes::postprocess                                             *)
(***************************************************************************)
\* variance (class constant of the header), in tenths: {0.1f, 0.2f}
variance == <<1, 2>>

\* multiplying by the scale in place of dividing
UnscaleByMultiplying(v, netInput, img) == FloatDiv(v * netInput, img)

\* v / scale for the float scale = netInput / img
Unscale(v, netInput, img) == FloatDiv(v * img, netInput)

\* the DetectedObject with width and height recomputed from the clamped corners
DetectionFromCorners(scores, boxes, i, netW, netH, imgWidth, imgHeight, lbls) ==
    LET l == clamp(Unscale(boxes[i + 1].left, netW, imgWidth), 0, 4 * imgWidth)
        r == clamp(Unscale(boxes[i + 1].right, netW, imgWidth), 0, 4 * imgWidth)
        t == clamp(Unscale(boxes[i + 1].top, netH, imgHeight), 0, 4 * imgHeight)
        b == clamp(Unscale(boxes[i + 1].bottom, netH, imgHeight), 0, 4 * imgHeight)
    IN  [confidence |-> scores.second[i + 1],
         x |-> l, y |-> t, width |-> r - l, height |-> b - t,
         labelID |-> 0, label |-> lbls[1]]

\* the DetectedObject the loop body pushes for kept index i (0-based)
Detection(scores, boxes, i, netW, netH, imgWidth, imgHeight, lbls) ==
    [confidence |-> scores.second[i + 1],
     x      |-> clamp(Unscale(boxes[i + 1].left, netW, imgWidth), 0, 4 * imgWidth),
     y      |-> clamp(Unscale(boxes[i + 1].top, netH, imgHeight), 0, 4 * imgHeight),
     width  |-> clamp(Unscale(getWidth(boxes[i + 1]), netW, imgWidth), 0, 4 * imgWidth),
     height |-> clamp(Unscale(getHeight(boxes[i + 1]), netH, imgHeight), 0, 4 * imgHeight),
     labelID |-> 0,
     label  |-> lbls[1]]

\* the loop using its counter, not the kept index, to read scores and boxes
ObjectsByCounter(scores, boxes, keep, netW, netH, imgWidth, imgHeight, lbls) ==
    [k \in 1..Len(keep) |->
        Detection(scores, boxes, k - 1, netW, netH, imgWidth, imgHeight, lbls)]

\* the loop leaving before the last kept index
ObjectsWithoutLast(scores, boxes, keep, netW, netH, imgWidth, imgHeight, lbls) ==
    [k \in 1..(Len(keep) - 1) |->
        Detection(scores, boxes, keep[k], netW, netH, imgWidth, imgHeight, lbls)]

\* for (auto i : keep) result->objects.push_back(desc)
Objects(scores, boxes, keep, netW, netH, imgWidth, imgHeight, lbls) ==
    [k \in 1..Len(keep) |->
        Detection(scores, boxes, keep[k], netW, netH, imgWidth, imgHeight, lbls)]

\* postprocess handing nms the confidence threshold in place of iou_threshold
postprocessNmsByConfidence(scoresTensor, boxesTensor, imgWidth, imgHeight, stray, anchorList, threshold, iou, netW, netH, lbls) ==
    LET scores == filterScores(scoresTensor, threshold)
        boxes == filterBoxes(boxesTensor, anchorList, scores.first, variance, stray)
        keep == nms(boxes, scores.second, threshold)
    IN  [status |-> "returned",
         scoresTensor |-> scoresTensor, boxesTensor |-> boxesTensor,
         imgWidth |-> imgWidth, imgHeight |-> imgHeight, stray |-> stray,
         scores |-> scores, boxes |-> boxes, keep |-> keep,
         objects |-> Objects(scores, boxes, keep, netW, netH, imgWidth, imgHeight, lbls)]

\* postprocess: the call's locals and its result
postprocess(scoresTensor, boxesTensor, imgWidth, imgHeight, stray, anchorList, threshold, iou, netW, netH, lbls) ==
    LET scores == filterScores(scoresTensor, threshold)
        boxes == filterBoxes(boxesTensor, anchorList, scores.first, variance, stray)
        keep == nms(boxes, scores.second, iou)
    IN  [status |-> "returned",
         scoresTensor |-> scoresTensor, boxesTensor |-> boxesTensor,
         imgWidth |-> imgWidth, imgHeight |-> imgHeight, stray |-> stray,
         scores |-> scores, boxes |-> boxes, keep |-> keep,
         objects |-> Objects(scores, boxes, keep, netW, netH, imgWidth, imgHeight, lbls)]

(***************************************************************************)
(* The inference results a postprocess call may be handed.  Both tensors   *)
(* have the shape the network declares (maxProposalsCount candidates).     *)
(* The candidates of a hot set (the first MaxHot ones, or the first and    *)
(* the last one) carry any of ScoreVals as foreground score, every other   *)
(* candidate a foreground score below every threshold; the background      *)
(* score is the complement.  The box deltas are zero but for at most one   *)
(* candidate.                                                              *)
(***************************************************************************)
ScoreVals == {50, 60, 70, 80}
DeltaTuples == {<<5, 0, 0, -5>>, <<0, -5, 5, 0>>}
Images == {<<100, 100>>, <<256, 64>>}            \* <<inputImgWidth, inputImgHeight>>
StrayAnchors == {Anchor(0, 0, 0, 0), Anchor(-40, 8, 600, 72)}

HotSets(n) == { {c \in 0..(n - 1) : c < MaxHot}, {c \in 0..(n - 1) : c = 0 \/ c = n - 1} }

\* the scores tensor of n candidates with foreground score f[c] for c in DOMAIN f
\* and 0.4 for the others; the background score is the complement
ScoresTensorOf(n, f) ==
    Tensor(<<1, n, 2>>, <<60, 40>>,
           [o \in UNION {{2 * c, 2 * c + 1} : c \in DOMAIN f} |->
               IF o % 2 = 0 THEN 100 - f[o \div 2] ELSE f[o \div 2]])

ScoresTensors(n) ==
    UNION { {ScoresTensorOf(n, f) : f \in [H -> ScoreVals]} : H \in HotSets(n) }

\* the boxes tensor of n candidates with deltas d for candidate dc and zero deltas
\* for the others
BoxesTensorOf(n, dc, d) ==
    Tensor(<<1, n, 4>>, <<0, 0, 0, 0>>,
           [o \in (4 * dc)..(4 * dc + 3) |-> d[o - 4 * dc + 1]])

BoxesTensors(n) ==
    {BoxesTensorOf(n, 0, <<0, 0, 0, 0>>)}
    \cup {BoxesTensorOf(n, dc, d) : dc \in {c \in {1, n - 1} : c >= 0}, d \in DeltaTuples}

\* some index filterScores returns is past the end of the anchors
ReadsPastAnchors(scoresTensor) ==
    /\ scoresTensor.shape[2] > Len(anchors)
    /\ LET valid == filterScores(scoresTensor, confidence_threshold).first
       IN  \E k \in 1..Len(valid) : valid[k] >= Len(anchors)

\* One inference result is processed to completion before the next is accepted.
FBPostprocessWith(st, bt, img) ==
    /\ wrapper = "faceboxes"
    /\ fbState = "ready"
    /\ call.status = "none"
    /\    \/ /\ ~ReadsPastAnchors(st)
             /\ call' = postprocess(st, bt, img[1], img[2], Anchor(0, 0, 0, 0), anchors,
                                    confidence_threshold, iou_threshold,
                                    netInputWidth, netInputHeight, labels)
          \/ /\ ReadsPastAnchors(st)
             /\ \/ \E stray \in StrayAnchors :
                      call' = postprocess(st, bt, img[1], img[2], stray, anchors,
                                          confidence_threshold, iou_threshold,
                                          netInputWidth, netInputHeight, labels)
                \/ call' = [status |-> "crashed", scoresTensor |-> st, boxesTensor |-> bt,
                            imgWidth |-> img[1], imgHeight |-> img[2]]
    /\ UNCHANGED <<steps, minSizes, confidence_threshold, iou_threshold, labels, fbModel,
                   fbState, fbError, inputNames, outputNames, netInputWidth,
                   netInputHeight, maxProposalsCount, anchors>>
    /\ UNCHANGED srVars

FBPostprocess ==
    /\ wrapper = "faceboxes" /\ fbState = "ready" /\ call.status = "none"
    /\ \E st \in ScoresTensors(maxProposalsCount), bt \in BoxesTensors(maxProposalsCount),
          img \in Images : FBPostprocessWith(st, bt, img)

\* The caller consumes the returned result and drops it: the call's buffers are gone.
FBRelease ==
    /\ wrapper = "faceboxes"
    /\ call.status = "returned"
    /\ call' = NoCall
    /\ UNCHANGED <<steps, minSizes, confidence_threshold, iou_threshold, labels, fbModel,
                   fbState, fbError, inputNames, outputNames, netInputWidth,
                   netInputHeight, maxProposalsCount, anchors>>
    /\ UNCHANGED srVars

(***************************************************************************)
(* SuperResolutionModel: set-up.                                           *)
(***************************************************************************)
SRSizes == {<<1, 1>>, <<2, 2>>, <<1, 2>>}        \* <<width, height>> of an input

SRModels ==
    { [nInputs |-> ni, lrRank |-> lr, channels |-> ch, lrSize |-> ls,
       bicRank |-> br, bicSize |-> bs, nOutputs |-> no] :
        ni \in 0..MaxTensors, lr \in {3, 4}, ch \in {1, 2, 3}, ls \in SRSizes,
        br \in {3, 4}, bs \in SRSizes, no \in 0..MaxTensors }

\* SuperResolutionModel::prepareInputsOutputs(model), as the state it leaves
srPrepareInputsOutputs(m) ==
    LET thrown(e, ins) == [state |-> "failed", error |-> e, names |-> <<ins, 0>>]
    IN  IF m.nInputs # 1 /\ m.nInputs # 2
        THEN thrown("Super resolution model wrapper supports topologies with 1 or 2 inputs only", 0)
        ELSE IF m.lrRank # 4
        THEN thrown("Number of dimensions for an input must be 4", 1)
        ELSE IF m.channels # 1 /\ m.channels # 3
        THEN thrown("Input layer is expected to have 1 or 3 channels", 1)
        ELSE IF m.nInputs = 2 /\ m.bicRank # 4
        THEN thrown("Number of dimensions for both inputs must be 4", 2)
        ELSE IF /\ m.nInputs = 2
                /\ ~(m.lrSize[1] >= m.bicSize[1] /\ m.lrSize[2] >= m.bicSize[2])
                /\ ~(m.lrSize[1] <= m.bicSize[1] /\ m.lrSize[2] <= m.bicSize[2])
        THEN thrown("Each spatial dimension of one input must surpass or be equal to a spatial dimension of another input", 2)
        ELSE IF m.nOutputs # 1
        THEN thrown("Super resolution model wrapper supports topologies with only 1 output", m.nInputs)
        ELSE [state |-> "ready", error |-> "none", names |-> <<m.nInputs, 1>>]

SRSetup ==
    /\ wrapper = "super_resolution"
    /\ srState = "constructed"
    /\ \E m \in SRModels :
          LET r == srPrepareInputsOutputs(m)
          IN  /\ srModel' = m
              /\ srState' = r.state
              /\ srError' = r.error
              /\ srNames' = r.names
    /\ UNCHANGED wrapper
    /\ UNCHANGED fbVars

Init ==
    /\ FBInit
    /\ wrapper \in {"faceboxes", "super_resolution"}
    /\ srState = "constructed"
    /\ srError = "none"
    /\ srModel = NoModel
    /\ srNames = <<0, 0>>

Next == FBSetup \/ FBPostprocess \/ FBRelease \/ SRSetup

Spec == Init /\ [][Next]_vars

(***************************************************************************)
(* Claims.                                                                 *)
(***************************************************************************)

\* C1 (as claimed): a set-up that returns has generated exactly
\* maxProposalsCount anchors; with any other count set-up ends in an error.
C1_SetupChecksAnchorCount ==
    fbState = "ready" => Len(anchors) = maxProposalsCount

(***************************************************************************)
(* The reference anchor sequence of C2, by index: the level, the cell and  *)
(* the place in the cell of the anchor with 0-based index idx.             *)
(***************************************************************************)
SubAnchors(s) == IF s = 32 THEN 16 ELSE IF s = 64 THEN 4 ELSE 1

RefTotal(w, h, st, ms) == ProposalsFrom(0, st, ms, w, h)

\* index of the first anchor of level k
RefLevelStart(k, w, h, st, ms) == RefTotal(w, h, st, ms) - ProposalsFrom(k, st, ms, w, h)

RECURSIVE RefSizeStart(_, _)
\* place in a level-0 cell of the first anchor of the a-th min size (1-based)
RefSizeStart(sizes, a) ==
    IF a = 1 THEN 0 ELSE RefSizeStart(sizes, a - 1) + SubAnchors(sizes[a - 1])

RefAnchorAt(idx, w, h, st, ms) ==
    LET k == CHOOSE l \in 0..(Len(st) - 1) :
                 /\ RefLevelStart(l, w, h, st, ms) <= idx
                 /\ idx < RefLevelStart(l + 1, w, h, st, ms)
        step == st[k + 1]
        cols == w \div step
        r == idx - RefLevelStart(k, w, h, st, ms)
        cell == r \div PerCell(ms, k)
        q == r % PerCell(ms, k)
        row == cell \div cols
        col == cell % cols
        a == CHOOSE b \in 1..Len(ms[1]) :
                 /\ RefSizeStart(ms[1], b) <= q
                 /\ q < RefSizeStart(ms[1], b) + SubAnchors(ms[1][b])
        s == IF k = 0 THEN ms[1][a] ELSE ms[k + 1][1]
        t == q - RefSizeStart(ms[1], a)
        perAxis == IF s = 32 THEN 4 ELSE 2
        \* sub-offsets in quarters of a cell
        oy == IF k = 0 /\ s = 32 THEN t \div perAxis
              ELSE IF k = 0 /\ s = 64 THEN 2 * (t \div perAxis) ELSE 2
        ox == IF k = 0 /\ s = 32 THEN t % perAxis
              ELSE IF k = 0 /\ s = 64 THEN 2 * (t % perAxis) ELSE 2
        cx == (4 * col + ox) * step
        cy == (4 * row + oy) * step
    IN  Anchor(cx - 2 * s, cy - 2 * s, cx + 2 * s, cy + 2 * s)

RefAnchors(w, h, st, ms) ==
    [p \in 1..RefTotal(w, h, st, ms) |-> RefAnchorAt(p - 1, w, h, st, ms)]

\* C2: after set-up the anchor list is the reference sequence, element for
\* element: levels ascending, rows outer and columns inner, in a level-0 cell
\* the min sizes in list order with their 16, 4 or 1 sub-offsets (y outer,
\* x inner), in a cell of a later level one anchor of size minSizes[k][0].
C2_AnchorsAreReference ==
    (fbState = "ready" /\ call.status = "none")
        => anchors = RefAnchors(netInputWidth, netInputHeight, steps, minSizes)

\* witness of C2: a set-up that generated anchors of all three levels, with
\* several rows and columns at level 0 and the three kinds of level-0 size
C2_Witness ==
    /\ fbState = "ready" /\ call.status = "none"
    /\ netInputWidth = 128 /\ netInputHeight = 128
    /\ minSizes[1] = <<32, 64, 128>>
    /\ Len(anchors) = 341
    /\ anchors[341] = Anchor(-768, -768, 1280, 1280)

\* the candidates of a scores tensor
Candidates(scoresTensor) == 0..((scoresTensor.shape[2] * scoresTensor.shape[3]) \div 2 - 1)

\* C3: filterScores returns candidate i, with the score at flat offset 2i+1,
\* exactly when that score is strictly above confidence_threshold; indices
\* and scores have equal length, are aligned, and the indices ascend strictly.
C3_FilterScores ==
    call.status = "returned" =>
        LET idx == call.scores.first
            sc == call.scores.second
        IN  /\ Len(idx) = Len(sc)
            /\ \A i \in Candidates(call.scoresTensor) :
                   (\E k \in 1..Len(idx) : idx[k] = i)
                       <=> At(call.scoresTensor, 2 * i + 1) > confidence_threshold
            /\ \A k \in 1..Len(idx) :
                   /\ idx[k] \in Candidates(call.scoresTensor)
                   /\ sc[k] = At(call.scoresTensor, 2 * idx[k] + 1)
            /\ \A k \in 1..(Len(idx) - 1) : idx[k] < idx[k + 1]

\* witness of C3: a call in which one candidate scores exactly the threshold
\* and is dropped while two others are kept
C3_Witness ==
    /\ call.status = "returned"
    /\ Len(call.scores.first) = 2
    /\ \E i \in 0..(MaxHot - 1) :
           /\ At(call.scoresTensor, 2 * i + 1) = confidence_threshold
           /\ \A k \in 1..2 : call.scores.first[k] # i

\* the 4 deltas of candidate i in a boxes tensor
DeltasOf(boxesTensor, i) ==
    [c \in 1..4 |-> At(boxesTensor, 4 * i + c - 1)]

\* the decode of section 4.3, from the anchor's centre and size and the deltas d
RefDecode(a, d) ==
    LET aw == a.right - a.left
        ah == a.bottom - a.top
        acx == (a.left + a.right) \div 2
        acy == (a.top + a.bottom) \div 2
        cx == (d[1] * aw) \div 10 + acx
        cy == (d[2] * ah) \div 10 + acy
        w == (ExpQuarters(2 * d[3]) * aw) \div 4
        h == (ExpQuarters(2 * d[4]) * ah) \div 4
    IN  Anchor(cx - w \div 2, cy - h \div 2, cx + w \div 2, cy + h \div 2)

\* C4: filterBoxes returns one box per entry of validIndices, in order, the
\* j-th decoded from anchors[validIndices[j]] and the deltas of that candidate;
\* with zero deltas the box is that anchor exactly.
C4_FilterBoxesAligned ==
    call.status = "returned" =>
        LET idx == call.scores.first
        IN  /\ Len(call.boxes) = Len(idx)
            /\ \A j \in 1..Len(idx) :
                   idx[j] < Len(anchors) =>
                       LET a == anchors[idx[j] + 1]
                           d == DeltasOf(call.boxesTensor, idx[j])
                       IN  /\ call.boxes[j] = RefDecode(a, d)
                           /\ d = <<0, 0, 0, 0>> => call.boxes[j] = a

\* witness of C4: a call that decoded candidates 1 and 2, the first with
\* deltas that move its anchor, the second with zero deltas
C4_Witness ==
    /\ call.status = "returned"
    /\ call.scores.first = <<1, 2>>
    /\ DeltasOf(call.boxesTensor, 1) # <<0, 0, 0, 0>>
    /\ call.boxes[1] # anchors[2]
    /\ call.boxes[2] = anchors[3]

\* C5: every emitted x and width lies in [0, imgWidth], y and height in
\* [0, imgHeight]; width is the scaled width of the box clamped on its own,
\* and height likewise, whatever the clamped corner is.
C5_AsymmetricClamp ==
    call.status = "returned" =>
        /\ Len(call.objects) = Len(call.keep)
        /\ \A k \in 1..Len(call.objects) :
               LET o == call.objects[k]
                   b == call.boxes[call.keep[k] + 1]
                   W == 4 * call.imgWidth
                   H == 4 * call.imgHeight
                   sw == ((b.right - b.left) * call.imgWidth) \div netInputWidth
                   sh == ((b.bottom - b.top) * call.imgHeight) \div netInputHeight
               IN  /\ 0 <= o.x /\ o.x <= W
                   /\ 0 <= o.y /\ o.y <= H
                   /\ 0 <= o.width /\ o.width <= W
                   /\ 0 <= o.height /\ o.height <= H
                   /\ o.width = Min(Max(sw, 0), W)
                   /\ o.height = Min(Max(sh, 0), H)

\* witness of C5: a detection whose width is capped at the image width of
\* 100 pixels although its x is positive, so that x + width passes the image
C5_Witness ==
    /\ call.status = "returned"
    /\ call.imgWidth = 100
    /\ \E k \in 1..Len(call.objects) :
           /\ call.objects[k].x > 0
           /\ call.objects[k].width = 4 * call.imgWidth
           /\ call.objects[k].x + call.objects[k].width > 4 * call.imgWidth

(***************************************************************************)
(* The end-to-end scenario of C6: the instance of the first configuration  *)
(* (steps 32, 64, 128; min sizes <<32, 64>>, <<256>>, <<512>>; confidence  *)
(* threshold 0.5) set up with a 1024x1024 network, and calls with zero     *)
(* deltas and one candidate above the threshold.                           *)
(***************************************************************************)
E2EStride == 1301      \* every E2EStride-th candidate is tried, and the ends of each level

E2EModel ==
    [nInputs |-> 1, channels |-> 3, width |-> 1024, height |-> 1024, nOutputs |-> 2,
     maxProposals |-> ProposalsFrom(0, steps, minSizes, 1024, 1024)]

E2ECandidates ==
    {i \in 0..(maxProposalsCount - 1) :
        \/ i % E2EStride = 0
        \/ \E k \in 0..Len(steps) :
               LET b == RefLevelStart(k, netInputWidth, netInputHeight, steps, minSizes)
               IN  i = b \/ i = b - 1}

E2EImages == {<<1024, 1024>>, <<640, 480>>, <<512, 2048>>}

InitE2E ==
    /\ Init
    /\ wrapper = "faceboxes"
    /\ minSizes = <<<<32, 64>>, <<256>>, <<512>>>>
    /\ confidence_threshold = 50

E2ESetup == FBSetupWith(E2EModel)

E2EPostprocess ==
    /\ wrapper = "faceboxes" /\ fbState = "ready" /\ call.status = "none"
    /\ \E i \in E2ECandidates, score \in {60, 80}, img \in E2EImages :
          FBPostprocessWith(ScoresTensorOf(maxProposalsCount, [c \in {i} |-> score]),
                            BoxesTensorOf(maxProposalsCount, 0, <<0, 0, 0, 0>>), img)

NextE2E == E2ESetup \/ E2EPostprocess \/ FBRelease

SpecE2E == InitE2E /\ [][NextE2E]_vars

\* the one candidate of the call in progress whose foreground score is above the threshold
E2ECandidate == call.scores.first[1]

\* that candidate's anchor box, from the reference sequence of C2
E2EAnchor == RefAnchorAt(E2ECandidate, 1024, 1024, <<32, 64, 128>>, <<<<32, 64>>, <<256>>, <<512>>>>)

\* v rescaled from the network input size to the original image size
Rescaled(v, netInput, img) == (v * img) \div netInput

\* C6 (as claimed): the call returns exactly one detection, whose rectangle is
\* the candidate's anchor box (left, top, width, height) rescaled to the image
\* size, with labelID 0, label labels[0] and the injected score as confidence.
C6_RectangleIsRescaledAnchor ==
    call.status = "returned" =>
        /\ Len(call.objects) = 1
        /\ LET o == call.objects[1]
               a == E2EAnchor
           IN  /\ o.x = Rescaled(a.left, 1024, call.imgWidth)
               /\ o.y = Rescaled(a.top, 1024, call.imgHeight)
               /\ o.width = Rescaled(a.right - a.left, 1024, call.imgWidth)
               /\ o.height = Rescaled(a.bottom - a.top, 1024, call.imgHeight)
               /\ o.labelID = 0 /\ o.label = labels[1]
               /\ o.confidence = At(call.scoresTensor, 2 * E2ECandidate + 1)

\* C6 (amended): the same, the rescaled left and top being clamped at 0 (the
\* anchors on the left and top border of the input reach outside it).
C6_RectangleIsClampedRescaledAnchor ==
    call.status = "returned" =>
        /\ Len(call.scores.first) = 1
        /\ Len(call.objects) = 1
        /\ LET o == call.objects[1]
               a == E2EAnchor
           IN  /\ o.x = Max(0, Rescaled(a.left, 1024, call.imgWidth))
               /\ o.y = Max(0, Rescaled(a.top, 1024, call.imgHeight))
               /\ o.width = Rescaled(a.right - a.left, 1024, call.imgWidth)
               /\ o.height = Rescaled(a.bottom - a.top, 1024, call.imgHeight)
               /\ o.labelID = 0 /\ o.label = labels[1]
               /\ o.confidence = At(call.scoresTensor, 2 * E2ECandidate + 1)
               /\ o.confidence > confidence_threshold

\* witness of C6: the call with the last candidate of level 0 above the
\* threshold and an image that is not of the network's size
C6_Witness ==
    /\ call.status = "returned"
    /\ Len(anchors) = 20800
    /\ call.scores.first = <<20479>>
    /\ call.imgWidth = 640 /\ call.imgHeight = 480
    /\ Len(call.objects) = 1
    /\ call.objects[1].confidence = 80
    /\ call.objects[1].width = 4 * 40 /\ call.objects[1].height = 4 * 30

\* position p (0-based) of the filtered list is among the kept indices
Kept(p) == \E k \in 1..Len(call.keep) : call.keep[k] = p

\* the filtered boxes at 0-based positions p and q overlap by more than iou_threshold
Overlap(p, q) == Overlaps(call.boxes[p + 1], call.boxes[q + 1], iou_threshold)

Positions == 0..(Len(call.boxes) - 1)

\* C7 (as claimed): of any two candidate boxes with IoU > iou_threshold and
\* scores s1 > s2, the s1 box survives NMS and the s2 box does not.
C7_HigherOfPairAlwaysSurvives ==
    call.status = "returned" =>
        \A p, q \in Positions :
            (Overlap(p, q) /\ call.scores.second[p + 1] > call.scores.second[q + 1])
                => (Kept(p) /\ ~Kept(q))

\* C7 (amended): of two candidate boxes with IoU > iou_threshold and scores
\* s1 > s2 the two never both survive; the s2 box survives only when the s1
\* box was itself removed by a kept box that precedes it; when they are the
\* only two candidates only the s1 box survives; and no two detections of a
\* call come from boxes whose IoU exceeds iou_threshold.
C7_OverlapElimination ==
    call.status = "returned" =>
        /\ \A p, q \in Positions :
               (Overlap(p, q) /\ call.scores.second[p + 1] > call.scores.second[q + 1]) =>
                   /\ ~(Kept(p) /\ Kept(q))
                   /\ Kept(q) => \E r \in Positions :
                                     Kept(r) /\ Before(call.scores.second, r, p) /\ Overlap(r, p)
                   /\ Len(call.boxes) = 2 => call.keep = <<p>>
        /\ Len(call.objects) = Len(call.keep)
        /\ \A k, l \in 1..Len(call.keep) :
               k # l => /\ call.keep[k] # call.keep[l]
                        /\ ~Overlap(call.keep[k], call.keep[l])

\* witness of C7: three candidates in a chain; the first removes the second,
\* and the third, which the second overlaps with a higher score, survives
C7_Witness ==
    /\ call.status = "returned"
    /\ Len(call.boxes) = 3
    /\ \E p, q, r \in Positions :
           /\ call.scores.second[p + 1] > call.scores.second[q + 1]
           /\ call.scores.second[q + 1] > call.scores.second[r + 1]
           /\ Overlap(p, q) /\ Overlap(q, r) /\ ~Overlap(p, r)
           /\ call.keep = <<p, r>>

\* C8: NMS run again on the boxes and scores it kept, with the same
\* threshold, keeps every one of them.
C8_NmsIdempotent ==
    call.status = "returned" =>
        LET kb == [k \in 1..Len(call.keep) |-> call.boxes[call.keep[k] + 1]]
            ks == [k \in 1..Len(call.keep) |-> call.scores.second[call.keep[k] + 1]]
        IN  nms(kb, ks, iou_threshold) = [k \in 1..Len(call.keep) |-> k - 1]

\* witness of C8: a call whose NMS kept two boxes and removed a third
C8_Witness ==
    /\ call.status = "returned"
    /\ Len(call.boxes) = 3
    /\ Len(call.keep) = 2
    /\ \E p \in Positions : ~Kept(p) /\ Overlap(p, call.keep[1])

\* C9: the kept indices are in descending score order, equal scores by
\* ascending candidate index; the detections are one per kept index, in that
\* order, with that index's filtered score as confidence; of two overlapping
\* candidates of equal score the later one never survives unless the earlier
\* one was removed by a kept box that precedes it.
C9_DescendingScoreOrder ==
    call.status = "returned" =>
        LET sc == call.scores.second
        IN  /\ \A k, l \in 1..Len(call.keep) :
                   k < l => /\ Before(sc, call.keep[k], call.keep[l])
                            /\ sc[call.keep[k] + 1] = sc[call.keep[l] + 1]
                                 => call.scores.first[call.keep[k] + 1]
                                      < call.scores.first[call.keep[l] + 1]
            /\ Len(call.objects) = Len(call.keep)
            /\ \A k \in 1..Len(call.keep) :
                   call.objects[k].confidence = sc[call.keep[k] + 1]
            /\ \A k \in 1..(Len(call.objects) - 1) :
                   call.objects[k].confidence >= call.objects[k + 1].confidence
            /\ \A p, q \in Positions :
                   (p < q /\ sc[p + 1] = sc[q + 1] /\ Overlap(p, q)) =>
                       /\ ~(Kept(p) /\ Kept(q))
                       /\ Kept(q) => \E r \in Positions :
                                         Kept(r) /\ Before(sc, r, p) /\ Overlap(r, p)

\* witness of C9: a call whose filter output is not in score order, with two
\* overlapping candidates of equal score of which the earlier one is kept
C9_Witness ==
    /\ call.status = "returned"
    /\ Len(call.keep) = 2
    /\ call.keep[1] > call.keep[2]
    /\ \E p, q \in Positions :
           /\ p < q /\ call.scores.second[p + 1] = call.scores.second[q + 1]
           /\ Overlap(p, q) /\ Kept(p) /\ ~Kept(q)

\* the structural defects of C10
FBDefect(m) == m.nInputs # 1 \/ m.nOutputs # 2 \/ m.channels # 3
SRDefect(m) ==
    \/ (m.nInputs # 1 /\ m.nInputs # 2)
    \/ m.nOutputs # 1
    \/ m.lrRank # 4
    \/ (m.channels # 1 /\ m.channels # 3)

\* C10: set-up of a model with a structural defect ends in an error, the
\* instance never serves a postprocess call, and a FaceBoxes instance whose
\* set-up failed has no anchors.
C10_SetupFailsFast ==
    /\ (fbModel # NoModel /\ FBDefect(fbModel)) =>
           /\ fbState = "failed" /\ fbError # "none"
           /\ call.status = "none"
           /\ ~ENABLED FBPostprocess
    /\ fbState = "failed" => (anchors = <<>> /\ call.status = "none")
    /\ (srModel # NoModel /\ SRDefect(srModel)) =>
           /\ srState = "failed" /\ srError # "none"
           /\ srNames[2] = 0

\* witness of C10: a FaceBoxes set-up that read the input and failed on the outputs
C10_Witness ==
    /\ fbModel # NoModel
    /\ fbModel.nInputs = 1 /\ fbModel.channels = 3 /\ fbModel.nOutputs # 2
    /\ fbState = "failed"
    /\ inputNames = 1 /\ netInputWidth = fbModel.width

\* no foreground score of the tensor is above confidence_threshold
NoCandidatePasses(scoresTensor) ==
    \A i \in Candidates(scoresTensor) : At(scoresTensor, 2 * i + 1) <= confidence_threshold

\* C11: a call on a scores tensor with no foreground score above
\* confidence_threshold returns, and its detection list is empty; a call that
\* returns carries exactly one detection for each index NMS kept, in NMS's
\* order; a call that does not return carries no result at all.
C11_NoPartialResult ==
    call.status # "none" =>
        /\ NoCandidatePasses(call.scoresTensor) =>
               (call.status = "returned" /\ call.keep = <<>> /\ call.objects = <<>>)
        /\ call.status = "returned" =>
               /\ Len(call.objects) = Len(call.keep)
               /\ \A k \in 1..Len(call.keep) :
                      call.objects[k] = Detection(call.scores, call.boxes, call.keep[k],
                                                  netInputWidth, netInputHeight,
                                                  call.imgWidth, call.imgHeight, labels)
        /\ call.status # "returned" =>
               (call.status = "crashed" /\ "objects" \notin DOMAIN call)

\* witness of C11: a returned call with an empty detection list on a tensor
\* whose highest foreground score equals the threshold
C11_Witness ==
    /\ call.status = "returned"
    /\ NoCandidatePasses(call.scoresTensor)
    /\ \E i \in Candidates(call.scoresTensor) :
           At(call.scoresTensor, 2 * i + 1) = confidence_threshold
    /\ call.objects = <<>>

\* what postprocess returns for the tensors and the image size of call c on the
\* instance as set-up left it, were a read past the anchors to yield s
ResultFor(c, s) ==
    postprocess(c.scoresTensor, c.boxesTensor, c.imgWidth, c.imgHeight, s, anchors,
                confidence_threshold, iou_threshold, netInputWidth, netInputHeight, labels)

\* a step that is a postprocess call leaves the anchors and the configuration
\* as they were, returns, and returns the detection list that the call's
\* tensors and image size alone determine
CallIsFrameAndFunction ==
    (call.status = "none" /\ call'.status # "none") =>
        /\ UNCHANGED <<anchors, steps, minSizes, confidence_threshold, iou_threshold, labels>>
        /\ call'.status = "returned"
        /\ \A s \in StrayAnchors : ResultFor(call', s).objects = call'.objects

\* C12 (as claimed): after set-up, every postprocess call leaves the anchor
\* list and the configuration unchanged, and its detection list is determined
\* by its tensors and its original image size alone, whatever calls preceded it.
C12_CallsLeaveInstanceAndDependOnInputOnly ==
    [][CallIsFrameAndFunction]_vars

\* C12 on the instances whose anchor list covers every candidate the network
\* declares: there the calls are frame-preserving functions of their input.
C12_CoveredInstanceCalls ==
    [][Len(anchors) >= maxProposalsCount => CallIsFrameAndFunction]_vars

====
